---- MODULE Spec2Model ----
(***************************************************************************)
(* Model of proc-lineq: ClosureInverter (src/src/lib.rs) and the derive    *)
(* macro that turns the inverse into `calculate` (proc-lineq-derive).      *)
(*                                                                         *)
(* Expressions are records: Lit, Path, Binary, Paren, Unary (syn::Expr).   *)
(* An expression becomes tokens (quote / ToTokens) and tokens become an    *)
(* expression again (syn's parser, precedence and left associativity);     *)
(* both conversions are modelled, because parse_quote! and the generated   *)
(* code go through them.                                                   *)
(***************************************************************************)
EXTENDS Integers, Sequences, FiniteSets, TLC

\* ---------------------------------------------------------------- bounds
MaxOps == 2      \* binary operators in an input closure body
MaxLit == 2      \* literals of closure strings are 1..MaxLit
MaxVal == 4      \* sample arguments of calculate / of the closure are 0..MaxVal

\* ------------------------------------------------------------ expressions
Lit(n) == [kind |-> "Lit", val |-> n]
Path(name) == [kind |-> "Path", name |-> name]
Paren(x) == [kind |-> "Paren", expr |-> x]
Unary(x) == [kind |-> "Unary", expr |-> x]

build_expr_binary(left, op, right) ==
    [kind |-> "Binary", left |-> left, op |-> op, right |-> right]

ArithOps == {"Add", "Sub", "Mul", "Div"}
BinOps == ArithOps \cup {"Rem"}

ParseErrors == {"BinOp", "Multiple", "NoSolveFor", "UnexpectedIdentifier", "Validation"}

\* ----------------------------------------------------------------- tokens
LitTok(n) == [t |-> "lit", s |-> "", n |-> n]
IdentTok(s) == [t |-> "ident", s |-> s, n |-> 0]
PunctTok(s) == [t |-> "punct", s |-> s, n |-> 0]

OpSymbol(op) ==
    CASE op = "Add" -> "+"
      [] op = "Sub" -> "-"
      [] op = "Mul" -> "*"
      [] op = "Div" -> "/"
      [] op = "Rem" -> "%"

SymbolOp(s) ==
    CASE s = "+" -> "Add"
      [] s = "-" -> "Sub"
      [] s = "*" -> "Mul"
      [] s = "/" -> "Div"
      [] s = "%" -> "Rem"

\* quote!: an expression is printed operand, operator, operand; only a Paren
\* node prints parentheses (tests::invert_complex_operators expects
\* calculate(2) == 3 for "10 - 2 * a + 4 / 2", the value of the ungrouped
\* tokens (10 - b - 4 / 2) / 2).
RECURSIVE ToTokens(_)
ToTokens(x) ==
    CASE x.kind = "Lit" -> << LitTok(x.val) >>
      [] x.kind = "Path" -> << IdentTok(x.name) >>
      [] x.kind = "Binary" ->
            ToTokens(x.left) \o << PunctTok(OpSymbol(x.op)) >> \o ToTokens(x.right)
      [] x.kind = "Paren" ->
            << PunctTok("(") >> \o ToTokens(x.expr) \o << PunctTok(")") >>
      [] x.kind = "Unary" -> << PunctTok("-") >> \o ToTokens(x.expr)

IsPunct(toks, i, syms) ==
    /\ i <= Len(toks)
    /\ toks[i].t = "punct"
    /\ toks[i].s \in syms

\* syn's expression parser on the token kinds above: `*`, `/`, `%` bind
\* tighter than `+`, `-`; operators of one level associate to the left.
\* Each operator returns the expression read and the next position.
RECURSIVE ParseSum(_, _), SumLoop(_, _, _), ParseTerm(_, _), TermLoop(_, _, _), ParseUnary(_, _)
ParseUnary(toks, i) ==
    IF IsPunct(toks, i, {"-"})
    THEN LET r == ParseUnary(toks, i + 1) IN [e |-> Unary(r.e), i |-> r.i]
    ELSE IF IsPunct(toks, i, {"("})
    THEN LET r == ParseSum(toks, i + 1) IN [e |-> Paren(r.e), i |-> r.i + 1]
    ELSE IF toks[i].t = "lit"
    THEN [e |-> Lit(toks[i].n), i |-> i + 1]
    ELSE [e |-> Path(toks[i].s), i |-> i + 1]

TermLoop(toks, lhs, i) ==
    IF IsPunct(toks, i, {"*", "/", "%"})
    THEN LET r == ParseUnary(toks, i + 1)
         IN TermLoop(toks, build_expr_binary(lhs, SymbolOp(toks[i].s), r.e), r.i)
    ELSE [e |-> lhs, i |-> i]

ParseTerm(toks, i) ==
    LET r == ParseUnary(toks, i) IN TermLoop(toks, r.e, r.i)

SumLoop(toks, lhs, i) ==
    IF IsPunct(toks, i, {"+", "-"})
    THEN LET r == ParseTerm(toks, i + 1)
         IN SumLoop(toks, build_expr_binary(lhs, SymbolOp(toks[i].s), r.e), r.i)
    ELSE [e |-> lhs, i |-> i]

ParseSum(toks, i) ==
    LET r == ParseTerm(toks, i) IN SumLoop(toks, r.e, r.i)

ParseTokens(toks) == ParseSum(toks, 1).e

\* parse_quote!(#e): print, then read again.
Reparse(x) == ParseTokens(ToTokens(x))

\* ------------------------------------------------------- usize arithmetic
\* A value is a number, or a failure (subtraction below zero, which the
\* overflow check of the test profile turns into a panic, or division by
\* zero); exact records that no division on the way had a remainder. The
\* numbers of the model stay far below 2^64.
Val(n, exact) == [ok |-> TRUE, n |-> n, exact |-> exact]
Fail == [ok |-> FALSE, n |-> 0, exact |-> FALSE]

Apply(op, x, y) ==
    IF ~x.ok \/ ~y.ok THEN Fail
    ELSE CASE op = "Add" -> Val(x.n + y.n, x.exact /\ y.exact)
           [] op = "Sub" -> IF x.n < y.n THEN Fail ELSE Val(x.n - y.n, x.exact /\ y.exact)
           [] op = "Mul" -> Val(x.n * y.n, x.exact /\ y.exact)
           [] op = "Div" -> IF y.n = 0 THEN Fail
                            ELSE Val(x.n \div y.n, x.exact /\ y.exact /\ x.n % y.n = 0)
           [] op = "Rem" -> IF y.n = 0 THEN Fail ELSE Val(x.n % y.n, x.exact /\ y.exact)

\* The value of expression x when identifier `name` is bound to v.
RECURSIVE Eval(_, _, _)
Eval(x, name, v) ==
    CASE x.kind = "Lit" -> Val(x.val, TRUE)
      [] x.kind = "Path" -> IF x.name = name THEN Val(v, TRUE) ELSE Fail
      [] x.kind = "Binary" -> Apply(x.op, Eval(x.left, name, v), Eval(x.right, name, v))
      [] x.kind = "Paren" -> Eval(x.expr, name, v)
      [] x.kind = "Unary" -> Fail

\* The generated code compiles: the only free identifier is the parameter
\* and usize has no negation.
RECURSIVE Compiles(_, _)
Compiles(x, param) ==
    CASE x.kind = "Lit" -> TRUE
      [] x.kind = "Path" -> x.name = param
      [] x.kind = "Binary" -> Compiles(x.left, param) /\ Compiles(x.right, param)
      [] x.kind = "Paren" -> Compiles(x.expr, param)
      [] x.kind = "Unary" -> FALSE

\* ------------------------------------------------------- ClosureInverter
\* The derive macro solves for `a` and names the parameter of the inverse `b`.
SolveFor == "a"
TargetIdent == "b"

Ok(x) == [tag |-> "Ok", e |-> x]
Err(kind) == [tag |-> "Err", err |-> kind]

\* validate_expr that looks at the root only
validate_expr_RootOnly(x) == x.kind \in {"Binary", "Lit", "Path"}

RECURSIVE validate_expr(_)
validate_expr(x) ==
    CASE x.kind = "Binary" -> validate_expr(x.left) /\ validate_expr(x.right)
      [] x.kind \in {"Lit", "Path"} -> TRUE
      [] OTHER -> FALSE

parse_path(p, target) == p.name = target

\* check_contains_target that forgets the right operand
RECURSIVE check_contains_target_LeftOnly(_, _)
check_contains_target_LeftOnly(x, target) ==
    CASE x.kind = "Binary" -> check_contains_target_LeftOnly(x.left, target)
      [] x.kind = "Lit" -> "false"
      [] x.kind = "Path" -> IF parse_path(x, target) THEN "true" ELSE "false"
      [] OTHER -> "unimplemented"

\* "true", "false", or "unimplemented" when the walk reaches unimplemented!();
\* `||` does not look at the right operand when the left one is true.
RECURSIVE check_contains_target(_, _)
check_contains_target(x, target) ==
    CASE x.kind = "Binary" ->
            LET l == check_contains_target(x.left, target)
            IN IF l = "false" THEN check_contains_target(x.right, target) ELSE l
      [] x.kind = "Lit" -> "false"
      [] x.kind = "Path" -> IF parse_path(x, target) THEN "true" ELSE "false"
      [] OTHER -> "unimplemented"

inverse_bin_op(op) ==
    CASE op = "Add" -> [tag |-> "Ok", op |-> "Sub"]
      [] op = "Sub" -> [tag |-> "Ok", op |-> "Add"]
      [] op = "Mul" -> [tag |-> "Ok", op |-> "Div"]
      [] op = "Div" -> [tag |-> "Ok", op |-> "Mul"]
      [] OTHER -> Err("BinOp")

\* parenthesize that groups every composite expression
parenthesize_Always(x, target_op) ==
    IF x.kind \in {"Lit", "Path"} THEN Ok(x)
    ELSE IF target_op \in ArithOps THEN Ok(Paren(Reparse(x)))
    ELSE Err("BinOp")

\* parse_quote!( (#e) ) prints e and reads it again inside a group.
parenthesize(x, target_op) ==
    IF x.kind \in {"Lit", "Path"} THEN Ok(x)
    ELSE CASE target_op \in {"Add", "Sub"} -> Ok(x)
           [] target_op \in {"Mul", "Div"} -> Ok(Paren(Reparse(x)))
           [] OTHER -> Err("BinOp")

\* One level of parse_expr returns either the call it recurses with, or the
\* value it returns, or Panic.
Recurse(acc, x) == [tag |-> "Recurse", target_expr |-> acc, e |-> x]
Panic == [tag |-> "Panic"]

\* SolveLeft that recurses into the other child
SolveLeft_WrongChild(b, target_expr, inverted_op) ==
    LET p == parenthesize(target_expr, inverted_op)
    IN IF p.tag = "Err" THEN p
       ELSE Recurse(build_expr_binary(p.e, inverted_op, b.right), b.right)

\* (true, false): the unknown is in the left operand.
SolveLeft(b, target_expr, inverted_op) ==
    LET p == parenthesize(target_expr, inverted_op)
    IN IF p.tag = "Err" THEN p
       ELSE Recurse(build_expr_binary(p.e, inverted_op, b.right), b.left)

\* (false, true), Add or Mul.
SolveRightCommutative(b, target_expr, inverted_op) ==
    LET p == parenthesize(target_expr, inverted_op)
    IN IF p.tag = "Err" THEN p
       ELSE Recurse(build_expr_binary(p.e, inverted_op, b.left), b.right)

\* SolveRightNonCommutative that applies the inverse operator
SolveRightNonCommutative_Inverted(b, target_expr, inverted_op) ==
    LET p == parenthesize(target_expr, inverted_op)
    IN IF p.tag = "Err" THEN p
       ELSE Recurse(build_expr_binary(b.left, inverted_op, p.e), b.right)

\* (false, true), Sub or Div.
SolveRightNonCommutative(b, target_expr, inverted_op) ==
    LET p == parenthesize(target_expr, b.op)
    IN IF p.tag = "Err" THEN p
       ELSE Recurse(build_expr_binary(b.left, b.op, p.e), b.right)

parse_expr(x, target_expr, solve_for) ==
    CASE x.kind = "Binary" ->
            LET left == check_contains_target(x.left, solve_for)
                right == check_contains_target(x.right, solve_for)
                inverted_op == inverse_bin_op(x.op)
            IN IF left = "unimplemented" \/ right = "unimplemented" THEN Panic
               ELSE IF inverted_op.tag = "Err" THEN inverted_op
               ELSE IF left = "true" /\ right = "false"
                    THEN SolveLeft(x, target_expr, inverted_op.op)
               ELSE IF left = "false" /\ right = "true"
                    THEN IF x.op \in {"Add", "Mul"}
                         THEN SolveRightCommutative(x, target_expr, inverted_op.op)
                         ELSE IF x.op \in {"Sub", "Div"}
                         THEN SolveRightNonCommutative(x, target_expr, inverted_op.op)
                         ELSE Err("BinOp")
               ELSE IF left = "true" /\ right = "true" THEN Err("Multiple")
               ELSE Err("NoSolveFor")
      [] x.kind = "Path" ->
            IF parse_path(x, solve_for) THEN [tag |-> "Ok"] ELSE Err("UnexpectedIdentifier")
      [] OTHER -> Panic

\* --------------------------------------------------------------- the state
VARIABLES
    closure,      \* body of the closure handed to solve
    pc,           \* "new", "parse_expr", "returned", "panicked", "calculated"
    e,            \* argument of the current parse_expr call
    target_expr,  \* ClosureInverter.target_expr, the accumulator
    result,       \* what solve returned: Ok(closure body) or Err(kind)
    steps,        \* recursive parse_expr calls made so far
    value,        \* argument of the last calculate call
    calc          \* what the last calculate call returned

vars == << closure, pc, e, target_expr, result, steps, value, calc >>

None == [tag |-> "None"]

\* ------------------------------------------------------------------ inputs
\* Closure strings the derive macro reads: operands separated by operators.
\* Arithmetic closures: literals and the unknown, the four operators.
Atoms == {<< LitTok(n) >> : n \in 1 .. MaxLit} \cup {<< IdentTok(SolveFor) >>}

\* Closures with what solve rejects: another identifier `c`, a negation `-a`,
\* a group `(a)`, the operator `%`.
Operands ==
    { << LitTok(1) >>, << IdentTok(SolveFor) >>, << IdentTok("c") >>,
      << PunctTok("-"), IdentTok(SolveFor) >>,
      << PunctTok("("), IdentTok(SolveFor), PunctTok(")") >> }

RECURSIVE Strings(_, _, _)
Strings(n, operands, ops) ==
    IF n = 0 THEN operands
    ELSE {s \o << PunctTok(OpSymbol(op)) >> \o a :
            s \in Strings(n - 1, operands, ops), op \in ops, a \in operands}

\* "200 - a * 2 + 3 * 2", "10 - 2 * a + 4 / 2", "33 + 4 * 2 - 100 / a"
TestComplex4 ==
    << LitTok(200), PunctTok("-"), IdentTok("a"), PunctTok("*"), LitTok(2),
       PunctTok("+"), LitTok(3), PunctTok("*"), LitTok(2) >>
TestComplex5 ==
    << LitTok(10), PunctTok("-"), LitTok(2), PunctTok("*"), IdentTok("a"),
       PunctTok("+"), LitTok(4), PunctTok("/"), LitTok(2) >>
TestComplex6 ==
    << LitTok(33), PunctTok("+"), LitTok(4), PunctTok("*"), LitTok(2),
       PunctTok("-"), LitTok(100), PunctTok("/"), IdentTok("a") >>

TestClosures == {TestComplex4, TestComplex5, TestComplex6}

SampleValues == {1, 2, 20, 21, 31}
Values == (0 .. MaxVal) \cup SampleValues

\* ----------------------------------------------------------------- actions
\* ClosureInverter::new
new(body) ==
    /\ closure = body
    /\ pc = "new"
    /\ e = body
    /\ target_expr = Path(TargetIdent)
    /\ result = None
    /\ steps = 0
    /\ value = 0
    /\ calc = Fail

\* closure_str.parse::<syn::ExprClosure>() and then new
Init ==
    \/ \E n \in 0 .. MaxOps : \E s \in Strings(n, Atoms, ArithOps) : new(ParseTokens(s))
    \/ \E n \in 0 .. MaxOps : \E s \in Strings(n, Operands, BinOps) : new(ParseTokens(s))
    \/ \E s \in TestClosures : new(ParseTokens(s))

\* solve, up to its call of parse_expr
Solve ==
    /\ pc = "new"
    /\ IF validate_expr(closure)
       THEN /\ pc' = "parse_expr"
            /\ e' = closure
            /\ result' = result
       ELSE /\ pc' = "returned"
            /\ result' = Err("Validation")
            /\ e' = e
    /\ UNCHANGED << closure, target_expr, steps, value, calc >>

\* one call of parse_expr; the last one returns through solve, which builds
\* the closure with parse_quote!
ParseExprStep ==
    /\ pc = "parse_expr"
    /\ LET r == parse_expr(e, target_expr, SolveFor)
       IN CASE r.tag = "Recurse" ->
                  /\ target_expr' = r.target_expr
                  /\ e' = r.e
                  /\ steps' = steps + 1
                  /\ UNCHANGED << pc, result >>
            [] r.tag = "Ok" ->
                  /\ pc' = "returned"
                  /\ result' = Ok(Reparse(target_expr))
                  /\ UNCHANGED << e, target_expr, steps >>
            [] r.tag = "Err" ->
                  /\ pc' = "returned"
                  /\ result' = r
                  /\ UNCHANGED << e, target_expr, steps >>
            [] r.tag = "Panic" ->
                  /\ pc' = "panicked"
                  /\ UNCHANGED << e, target_expr, result, steps >>
    /\ UNCHANGED << closure, value, calc >>

\* calculate(value) of the generated impl: the closure is printed into the
\* generated code and compiled.
calculate(v) == Eval(Reparse(result.e), TargetIdent, v)

\* Arguments tried: the sample values and the values the closure itself takes.
Arguments ==
    Values \cup {Eval(closure, SolveFor, v).n : v \in 0 .. MaxVal}

Calculate ==
    /\ pc \in {"returned", "calculated"}
    /\ result.tag = "Ok"
    /\ Compiles(result.e, TargetIdent)
    /\ \E v \in Arguments :
          /\ value' = v
          /\ calc' = calculate(v)
    /\ pc' = "calculated"
    /\ UNCHANGED << closure, e, target_expr, result, steps >>

Next == Solve \/ ParseExprStep \/ Calculate

Spec == Init /\ [][Next]_vars

\* ------------------------------------------------- vocabulary of the claims
Finished == pc \in {"returned", "panicked", "calculated"}

\* Number of occurrences of identifier `name` in x.
RECURSIVE Occurrences(_, _)
Occurrences(x, name) ==
    CASE x.kind = "Binary" -> Occurrences(x.left, name) + Occurrences(x.right, name)
      [] x.kind = "Path" -> IF x.name = name THEN 1 ELSE 0
      [] x.kind = "Lit" -> 0
      [] OTHER -> Occurrences(x.expr, name)

\* x has an identifier other than `name`.
RECURSIVE HasStray(_, _)
HasStray(x, name) ==
    CASE x.kind = "Binary" -> HasStray(x.left, name) \/ HasStray(x.right, name)
      [] x.kind = "Path" -> x.name # name
      [] x.kind = "Lit" -> FALSE
      [] OTHER -> HasStray(x.expr, name)

\* x has a node that is not a literal, an identifier or a binary operation.
RECURSIVE HasUnsupported(_)
HasUnsupported(x) ==
    CASE x.kind = "Binary" -> HasUnsupported(x.left) \/ HasUnsupported(x.right)
      [] x.kind \in {"Lit", "Path"} -> FALSE
      [] OTHER -> TRUE

\* Every binary operator of x is one of +, -, *, /.
RECURSIVE Arithmetic(_)
Arithmetic(x) ==
    CASE x.kind = "Binary" -> x.op \in ArithOps /\ Arithmetic(x.left) /\ Arithmetic(x.right)
      [] x.kind \in {"Lit", "Path"} -> TRUE
      [] OTHER -> Arithmetic(x.expr)

\* Literals, identifiers and binary operations over +, -, *, /.
WellFormed(x) == ~HasUnsupported(x) /\ Arithmetic(x)

\* Literals, +, -, *, / and exactly one occurrence of solve_for.
SingleOccurrence(x) ==
    /\ WellFormed(x)
    /\ ~HasStray(x, SolveFor)
    /\ Occurrences(x, SolveFor) = 1

\* Depth of the solve_for leaf in a SingleOccurrence expression.
RECURSIVE LeafDepth(_)
LeafDepth(x) ==
    IF x.kind # "Binary" THEN 0
    ELSE IF Occurrences(x.left, SolveFor) = 1 THEN 1 + LeafDepth(x.left)
    ELSE 1 + LeafDepth(x.right)

RECURSIVE Size(_)
Size(x) ==
    CASE x.kind = "Binary" -> 1 + Size(x.left) + Size(x.right)
      [] x.kind \in {"Lit", "Path"} -> 1
      [] OTHER -> 1 + Size(x.expr)

\* On the way to the solve_for leaf every other operand is a literal, so the
\* only composite expression the rewriting nests is the accumulator.
RECURSIVE LiteralOperands(_)
LiteralOperands(x) ==
    IF x.kind # "Binary" THEN TRUE
    ELSE IF Occurrences(x.left, SolveFor) = 1
         THEN x.right.kind = "Lit" /\ LiteralOperands(x.left)
         ELSE x.left.kind = "Lit" /\ LiteralOperands(x.right)

\* ------------------------------------------------------------------ claims
\* C1: round trip. For a single-occurrence expression E over +, -, *, / and a
\* value v for which E(v) is computed without remainder, division by zero or
\* overflow, the emitted inverse applied to E(v), itself computed without
\* remainder or failure, yields v.
C1_RoundTrip ==
    (pc = "calculated" /\ SingleOccurrence(closure)) =>
        \A v \in 0 .. MaxVal :
            LET y == Eval(closure, SolveFor, v)
            IN (y.ok /\ y.exact /\ value = y.n /\ calc.ok /\ calc.exact) => calc.n = v

\* C2: an expression without solve_for fails with NoSolveFor; stated for the
\* expressions of literals over +, -, *, / (a single literal, a binary tree
\* of literals), where no other error is due.
C2_NoSolveFor ==
    (Finished /\ WellFormed(closure) /\ ~HasStray(closure, SolveFor)
        /\ Occurrences(closure, SolveFor) = 0)
    => (pc = "returned" /\ result = Err("NoSolveFor"))

\* C3: an expression with an identifier other than solve_for fails with
\* UnexpectedIdentifier and never succeeds; stated for the expressions that
\* are otherwise solvable (one occurrence of solve_for, operators +, -, *, /).
C3_UnexpectedIdentifier ==
    (Finished /\ WellFormed(closure) /\ HasStray(closure, SolveFor)
        /\ Occurrences(closure, SolveFor) = 1)
    => (pc = "returned" /\ result = Err("UnexpectedIdentifier"))

\* C4: an expression of literals, identifiers and +, -, *, / with two or more
\* occurrences of solve_for fails with Multiple, also when it has a stray
\* identifier; solve does not panic on it.
C4_Multiple ==
    (WellFormed(closure) /\ Occurrences(closure, SolveFor) >= 2) =>
        /\ pc # "panicked"
        /\ pc # "calculated"
        /\ pc = "returned" => result = Err("Multiple")

C4_Witness ==
    /\ pc = "returned"
    /\ result = Err("Multiple")
    /\ steps >= 1
    /\ HasStray(closure, SolveFor)
    /\ Occurrences(closure, SolveFor) >= 2

\* C5: every call of solve ends with Ok(closure) or with one error of the
\* taxonomy; it never panics.
C5_NoPanic ==
    /\ pc # "panicked"
    /\ pc \in {"returned", "calculated"} =>
          \/ result.tag = "Ok"
          \/ result.tag = "Err" /\ result.err \in ParseErrors

\* C6: an expression with an unsupported node kind at any depth fails with
\* Validation before any rewriting: no parse_expr call is made, the
\* accumulator is still the bare target placeholder, no other outcome.
C6_Validation ==
    (HasUnsupported(closure) /\ pc # "new") =>
        /\ pc = "returned"
        /\ result = Err("Validation")
        /\ target_expr = Path(TargetIdent)
        /\ steps = 0

C6_Witness ==
    /\ pc = "returned"
    /\ result = Err("Validation")
    /\ closure.kind = "Binary"
    /\ closure.left.kind = "Binary"
    /\ ~HasUnsupported(closure.left)
    /\ closure.right.kind \in {"Unary", "Paren"}

\* C7: for "200 - a * 2 + 3 * 2" solve succeeds and the generated calculate
\* maps 20 to 87 and 1 to 96.
C7_TestComplex4 ==
    closure = ParseTokens(TestComplex4) =>
        /\ pc # "panicked"
        /\ pc = "returned" =>
              /\ result.tag = "Ok"
              /\ calculate(20).ok /\ calculate(20).n = 87
              /\ calculate(1).ok /\ calculate(1).n = 96
        /\ (pc = "calculated" /\ value = 20) => (calc.ok /\ calc.n = 87)
        /\ (pc = "calculated" /\ value = 1) => (calc.ok /\ calc.n = 96)

C7_Witness ==
    /\ closure = ParseTokens(TestComplex4)
    /\ pc = "calculated"
    /\ value = 20
    /\ calc.ok /\ calc.n = 87

\* C8: the inverse has the same value read as the tree the algorithm built
\* and read from its tokens; stated for the expressions whose other operands
\* are literals, where only the grouping of the accumulator is at stake, and
\* for arguments on which both readings are computed without failure.
C8_GroupingKeepsValue ==
    (pc = "calculated" /\ SingleOccurrence(closure) /\ LiteralOperands(closure)) =>
        LET t == Eval(target_expr, TargetIdent, value)
        IN (t.ok /\ calc.ok) => t.n = calc.n

\* C9: a parse_expr call on a binary node with operator Sub or Div whose right
\* child alone has solve_for makes the accumulator (left, op, accumulator)
\* with the node's own operator and left operand, the previous accumulator
\* on the right (in a group when op is Div and the accumulator is composite),
\* and recurses into the right child.
NonCommutativeRight ==
    /\ pc = "parse_expr"
    /\ e.kind = "Binary"
    /\ e.op \in {"Sub", "Div"}
    /\ Occurrences(e.left, SolveFor) = 0
    /\ Occurrences(e.right, SolveFor) >= 1

C9_NonCommutativeRightStep ==
    [][NonCommutativeRight =>
        /\ pc' = "parse_expr"
        /\ e' = e.right
        /\ steps' = steps + 1
        /\ target_expr'.kind = "Binary"
        /\ target_expr'.op = e.op
        /\ target_expr'.left = e.left
        /\ IF e.op = "Div" /\ target_expr.kind = "Binary"
           THEN /\ target_expr'.right.kind = "Paren"
                /\ ToTokens(target_expr'.right)
                     = << PunctTok("(") >> \o ToTokens(target_expr) \o << PunctTok(")") >>
           ELSE target_expr'.right = target_expr]_vars

C9_Witness ==
    /\ pc = "parse_expr"
    /\ target_expr.kind = "Binary"
    /\ target_expr.op = "Div"
    /\ target_expr.left.kind = "Lit"
    /\ target_expr.right.kind = "Paren"
    /\ Occurrences(target_expr.right, TargetIdent) = 1

\* C10: on a single-occurrence expression over +, -, *, / solve terminates
\* with success. Every recursive call descends into the child that has
\* solve_for, so the remaining subtree shrinks; the calls made plus the depth
\* of solve_for in what remains is the depth of solve_for in the input, so
\* the number of calls is that depth; every call made recurses or returns
\* Ok, so no error or panic is produced on the way.
C10_Descent ==
    SingleOccurrence(closure) =>
        /\ pc # "panicked"
        /\ pc = "parse_expr" =>
              /\ parse_expr(e, target_expr, SolveFor).tag \in {"Recurse", "Ok"}
              /\ Occurrences(e, SolveFor) = 1
              /\ steps + LeafDepth(e) = LeafDepth(closure)
        /\ pc \in {"returned", "calculated"} =>
              /\ result.tag = "Ok"
              /\ steps = LeafDepth(closure)
              /\ e = Path(SolveFor)

C10_Shrinks ==
    (e' # e) =>
        /\ e.kind = "Binary"
        /\ e' \in {e.left, e.right}
        /\ Size(e') < Size(e)

C10_Termination == [] C10_Descent /\ [][C10_Shrinks]_vars

C10_Witness ==
    /\ SingleOccurrence(closure)
    /\ pc = "returned"
    /\ result.tag = "Ok"
    /\ steps = MaxOps
====
